---- MODULE Spec2Model ----
(***************************************************************************)
(* Model of the modal editor of tui-logue (src/src/app/ui/editor/mod.rs):  *)
(* the Editor, its EntryBox, and the tui_textarea::TextArea operations the *)
(* editor calls.                                                           *)
(*                                                                         *)
(* Text is a sequence of cells.  A cell is one character, written as a     *)
(* one-character string, except that the seven characters a timestamp      *)
(* "[HH:MM]" formats to are carried as one cell.  NL is the newline cell.  *)
(* Rows and columns are 0-based as in the source; Line(ta, row) reads a    *)
(* row of the 1-based TLA+ sequence.                                        *)
(*                                                                         *)
(* Of the undo history of TextArea the model keeps the number of edits it  *)
(* holds: the keys that reach undo/redo (u, Ctrl+r, Ctrl+u) are outside    *)
(* the input set, so the edits themselves are never read.                  *)
(***************************************************************************)
EXTENDS Integers, Sequences, FiniteSets, TLC

VARIABLES
    text_area,      \* Editor.text_area : TextArea
    entry_box,      \* Editor.entry_box : [input_area : TextArea, is_active]
    mode,           \* Editor.mode
    is_active,      \* Editor.is_active
    is_dirty,       \* Editor.is_dirty
    has_unsaved,    \* Editor.has_unsaved
    app,            \* the App handed to every call: current entry id, settings
    os_clipboard,   \* text held by the operating system clipboard
    last,           \* the last completed call: its name and what it returned
    steps           \* the number of calls made so far

vars == <<text_area, entry_box, mode, is_active, is_dirty, has_unsaved,
          app, os_clipboard, last, steps>>

----------------------------------------------------------------------------
(* Bounds of the model *)

\* most lines a TextArea may hold
MaxLines == 2
\* most cells a line of the content TextArea may hold
MaxCols == 4
\* most cells the EntryBox line may hold
MaxBox == 2
\* most calls of the editor's operations in one run
MaxSteps == 6

----------------------------------------------------------------------------
(* Text *)

NL == "\n"
None == <<>>

Min(a, b) == IF a < b THEN a ELSE b

Take(s, n) == SubSeq(s, 1, n)
Drop(s, n) == SubSeq(s, n + 1, Len(s))

\* Vec<String>::join("\n")
RECURSIVE JoinLines(_)
JoinLines(ls) ==
    IF Len(ls) = 0 THEN <<>>
    ELSE IF Len(ls) = 1 THEN ls[1]
    ELSE ls[1] \o <<NL>> \o JoinLines(Tail(ls))

\* str::split('\n'): always at least one piece, a trailing newline gives a
\* trailing empty piece
RECURSIVE SplitNl(_)
SplitNl(t) ==
    IF \A i \in 1..Len(t) : t[i] # NL THEN <<t>>
    ELSE LET i == CHOOSE k \in 1..Len(t) :
                      t[k] = NL /\ \A j \in 1..(k - 1) : t[j] # NL
         IN <<Take(t, i - 1)>> \o SplitNl(Drop(t, i))

\* str::lines(): as split('\n'), but a final empty piece is dropped, so the
\* empty string has no lines and a final newline ends the last line
StrLines(t) ==
    LET ps == SplitNl(t)
    IN IF ps[Len(ps)] = <<>> THEN Take(ps, Len(ps) - 1) ELSE ps

\* str::trim() on a line: leading and trailing spaces removed
RECURSIVE TrimStart(_)
TrimStart(l) == IF Len(l) > 0 /\ l[1] = " " THEN TrimStart(Tail(l)) ELSE l
RECURSIVE TrimEnd(_)
TrimEnd(l) ==
    IF Len(l) > 0 /\ l[Len(l)] = " " THEN TrimEnd(Take(l, Len(l) - 1)) ELSE l
Trim(l) == TrimEnd(TrimStart(l))

----------------------------------------------------------------------------
(* tui_textarea::TextArea, as far as the editor uses it *)

\* TextArea::new(lines): an empty vector becomes one empty line
TaNew(ls) ==
    [lines |-> IF Len(ls) = 0 THEN << <<>> >> ELSE ls,
     cursor |-> <<0, 0>>,
     selection_start |-> None,
     yank |-> <<>>,
     history |-> 0]

\* TextArea::default()
TaDefault == TaNew(<< <<>> >>)

Line(ta, row) == ta.lines[row + 1]
Row(ta) == ta.cursor[1]
Col(ta) == ta.cursor[2]
fit_col(col, line) == Min(col, Len(line))

PosLess(p, q) == p[1] < q[1] \/ (p[1] = q[1] /\ p[2] < q[2])

\* TextArea::is_selecting
is_selecting(ta) == ta.selection_start # None
\* TextArea::start_selection / cancel_selection
start_selection(ta) == [ta EXCEPT !.selection_start = ta.cursor]
cancel_selection(ta) == [ta EXCEPT !.selection_start = None]

\* TextArea::selection_positions: the ordered span between anchor and
\* cursor, None when there is no anchor or the span is empty
selection_positions(ta) ==
    IF ta.selection_start = None \/ ta.selection_start = ta.cursor THEN None
    ELSE IF PosLess(ta.selection_start, ta.cursor)
         THEN <<ta.selection_start, ta.cursor>>
         ELSE <<ta.cursor, ta.selection_start>>

\* the text between two positions, lines joined by newlines
RangeText(ta, s, e) ==
    IF s[1] = e[1] THEN SubSeq(Line(ta, s[1]), s[2] + 1, e[2])
    ELSE Drop(Line(ta, s[1]), s[2]) \o <<NL>>
         \o (IF e[1] - s[1] > 1
             THEN JoinLines(SubSeq(ta.lines, s[1] + 2, e[1])) \o <<NL>>
             ELSE <<>>)
         \o Take(Line(ta, e[1]), e[2])

\* TextArea::delete_range: removes the span, leaves the cursor at its start
delete_range(ta, s, e, should_yank) ==
    [ta EXCEPT
        !.lines = Take(ta.lines, s[1])
                  \o << Take(Line(ta, s[1]), s[2]) \o Drop(Line(ta, e[1]), e[2]) >>
                  \o Drop(ta.lines, e[1] + 1),
        !.cursor = s,
        !.yank = IF should_yank THEN RangeText(ta, s, e) ELSE ta.yank,
        !.history = @ + 1]

\* TextArea::delete_selection: take_selection_positions always drops the
\* anchor; the text is removed only when the span is not empty
delete_selection(ta, should_yank) ==
    LET sp == selection_positions(ta)
        t0 == cancel_selection(ta)
    IN IF sp = None THEN [ta |-> t0, ok |-> FALSE]
       ELSE [ta |-> delete_range(t0, sp[1], sp[2], should_yank), ok |-> TRUE]

\* insert_piece / insert_chunk without the selection handling: the text is
\* put at the cursor, the cursor moves behind it, the edit is recorded
InsertAtCursor(ta, t) ==
    LET ps == SplitNl(t)
        n == Len(ps)
        before == Take(Line(ta, Row(ta)), Col(ta))
        after == Drop(Line(ta, Row(ta)), Col(ta))
    IN IF n = 1
       THEN [ta EXCEPT !.lines[Row(ta) + 1] = before \o t \o after,
                       !.cursor = <<Row(ta), Col(ta) + Len(t)>>,
                       !.history = @ + 1]
       ELSE [ta EXCEPT
               !.lines = Take(ta.lines, Row(ta))
                         \o << before \o ps[1] >>
                         \o SubSeq(ps, 2, n - 1)
                         \o << ps[n] \o after >>
                         \o Drop(ta.lines, Row(ta) + 1),
               !.cursor = <<Row(ta) + n - 1, Len(ps[n])>>,
               !.history = @ + 1]

\* TextArea::insert_str: the selection is deleted first; reports whether
\* text was inserted
insert_str(ta, t) ==
    LET Then(d) ==
          IF Len(t) = 0 THEN [ta |-> d.ta, ok |-> d.ok]
          ELSE [ta |-> InsertAtCursor(d.ta, t), ok |-> TRUE]
    IN Then(delete_selection(ta, FALSE))

\* TextArea::insert_char
insert_char(ta, c) == InsertAtCursor(delete_selection(ta, FALSE).ta, <<c>>)

\* TextArea::insert_newline
insert_newline(ta) == InsertAtCursor(delete_selection(ta, FALSE).ta, <<NL>>)

\* a copy that drops the anchor and forgets to fill the register
copy_without_yank(ta) == cancel_selection(ta)

\* TextArea::copy: yanks the selection when there is one; drops the anchor
copy(ta) ==
    LET sp == selection_positions(ta)
        t0 == cancel_selection(ta)
    IN IF sp = None THEN t0 ELSE [t0 EXCEPT !.yank = RangeText(ta, sp[1], sp[2])]

\* a cut that removes the selection and forgets to fill the register
cut_without_yank(ta) == delete_selection(ta, FALSE)

\* TextArea::cut
cut(ta) == delete_selection(ta, TRUE)

\* TextArea::paste: inserts the yank register at the cursor
paste(ta) ==
    LET Then(d) ==
          IF Len(d.ta.yank) = 0 THEN [ta |-> d.ta, ok |-> FALSE]
          ELSE [ta |-> InsertAtCursor(d.ta, d.ta.yank), ok |-> TRUE]
    IN Then(delete_selection(ta, FALSE))

\* TextArea::yank_text
yank_text(ta) == ta.yank

----------------------------------------------------------------------------
(* Cursor movement: tui_textarea::CursorMove::next_cursor *)

\* CharKind::new
CharKind(c) == IF c = " " THEN "Space" ELSE "Other"

\* find_word_start_forward: the first column behind start_col where a word
\* starts; None at or behind the end of the line
find_word_start_forward(line, start_col) ==
    LET cand == {c \in (start_col + 1)..(Len(line) - 1) :
                    /\ CharKind(line[c + 1]) # "Space"
                    /\ CharKind(line[c]) # CharKind(line[c + 1])}
    IN IF start_col >= Len(line) \/ cand = {} THEN None
       ELSE <<CHOOSE c \in cand : \A d \in cand : c <= d>>

\* find_word_start_backward: the last column before start_col where a word
\* starts
find_word_start_backward(line, start_col) ==
    LET sc == Min(start_col, Len(line))
        cand == {c \in 1..(sc - 1) :
                    /\ CharKind(line[c + 1]) # "Space"
                    /\ CharKind(line[c]) # CharKind(line[c + 1])}
    IN IF sc = 0 THEN None
       ELSE IF cand # {} THEN <<CHOOSE c \in cand : \A d \in cand : c >= d>>
       ELSE IF CharKind(line[1]) # "Space" THEN <<0>>
       ELSE None

\* the first row behind `row` that starts a paragraph, else the last row
RECURSIVE ParagraphForwardRow(_, _, _)
ParagraphForwardRow(ls, r, prev_is_empty) ==
    IF r >= Len(ls) THEN Len(ls) - 1
    ELSE IF Len(ls[r + 1]) # 0 /\ prev_is_empty THEN r
    ELSE ParagraphForwardRow(ls, r + 1, Len(ls[r + 1]) = 0)

\* scanning upwards from row r: the row below the first empty line that has
\* a non-empty line under it, else the first row
RECURSIVE ParagraphBackRow(_, _, _)
ParagraphBackRow(ls, r, prev_is_empty) ==
    IF r < 0 THEN 0
    ELSE IF Len(ls[r + 1]) = 0 /\ ~prev_is_empty THEN r + 1
    ELSE ParagraphBackRow(ls, r - 1, Len(ls[r + 1]) = 0)

\* CursorMove::next_cursor: the position a movement leads to, None when the
\* movement is impossible.  vrow is the row the viewport leaves the cursor
\* on after a scroll (CursorMove::InViewport).
next_cursor(ta, m, vrow) ==
    LET row == Row(ta)
        col == Col(ta)
        ls == ta.lines
        n == Len(ls)
        len == Len(Line(ta, row))
    IN CASE m = "Forward" ->
              IF col < len THEN <<row, col + 1>>
              ELSE IF row + 1 < n THEN <<row + 1, 0>> ELSE None
         [] m = "Back" ->
              IF col > 0 THEN <<row, col - 1>>
              ELSE IF row > 0 THEN <<row - 1, Len(ls[row])>> ELSE None
         [] m = "Up" ->
              IF row > 0 THEN <<row - 1, fit_col(col, ls[row])>> ELSE None
         [] m = "Down" ->
              IF row + 1 < n THEN <<row + 1, fit_col(col, ls[row + 2])>> ELSE None
         [] m = "Head" -> <<row, 0>>
         [] m = "End" -> <<row, len>>
         [] m = "Top" -> <<0, fit_col(col, ls[1])>>
         [] m = "Bottom" -> <<n - 1, fit_col(col, ls[n])>>
         [] m = "WordForward" ->
              LET f == find_word_start_forward(ls[row + 1], col)
              IN IF f # None THEN <<row, f[1]>>
                 ELSE IF row + 1 < n THEN <<row + 1, 0>> ELSE <<row, len>>
         [] m = "WordBack" ->
              LET f == find_word_start_backward(ls[row + 1], col)
              IN IF f # None THEN <<row, f[1]>>
                 ELSE IF row > 0 THEN <<row - 1, Len(ls[row])>> ELSE <<row, 0>>
         [] m = "ParagraphForward" ->
              LET r == ParagraphForwardRow(ls, row + 1, len = 0)
              IN <<r, fit_col(col, ls[r + 1])>>
         [] m = "ParagraphBack" ->
              IF row = 0 THEN None
              ELSE LET r == ParagraphBackRow(ls, row - 2, Len(ls[row]) = 0)
                   IN <<r, fit_col(col, ls[r + 1])>>
         [] m = "InViewport" ->
              LET r == Min(vrow, n - 1) IN <<r, fit_col(col, ls[r + 1])>>

\* TextArea::move_cursor_with_shift: an impossible movement changes nothing;
\* a possible one starts a selection under shift and drops it otherwise
move_cursor_with_shift(ta, m, shift, vrow) ==
    LET MoveTo(c) ==
          IF c = None THEN ta
          ELSE [ta EXCEPT
                  !.selection_start =
                      IF shift
                      THEN (IF ta.selection_start = None THEN ta.cursor
                            ELSE ta.selection_start)
                      ELSE None,
                  !.cursor = c]
    IN MoveTo(next_cursor(ta, m, vrow))

\* TextArea::move_cursor: keeps a selection that is open
move_cursor(ta, m) == move_cursor_with_shift(ta, m, is_selecting(ta), 0)

\* TextArea::scroll_with_shift
scroll_with_shift(ta, shift, vrow) ==
    LET t0 == IF shift /\ ta.selection_start = None
              THEN [ta EXCEPT !.selection_start = ta.cursor] ELSE ta
    IN move_cursor_with_shift(t0, "InViewport", shift, vrow)

\* TextArea::scroll
scroll(ta, vrow) == scroll_with_shift(ta, is_selecting(ta), vrow)

----------------------------------------------------------------------------
(* Deletion: each reports whether the text changed *)

\* TextArea::delete_piece: removes up to `chars` cells from column col on
\* and yanks them
delete_piece(ta, col, chars) ==
    LET line == Line(ta, Row(ta))
        removed == SubSeq(line, col + 1, Min(Len(line), col + chars))
    IN IF chars = 0 \/ Len(removed) = 0 THEN [ta |-> ta, ok |-> FALSE]
       ELSE [ta |-> [ta EXCEPT
                        !.lines[Row(ta) + 1] =
                            Take(line, col) \o Drop(line, col + Len(removed)),
                        !.cursor = <<Row(ta), col>>,
                        !.yank = removed,
                        !.history = @ + 1],
             ok |-> TRUE]

\* TextArea::delete_newline: joins the line to the one above it
delete_newline(ta) ==
    LET row == Row(ta)
    IN IF row = 0 THEN [ta |-> ta, ok |-> FALSE]
       ELSE [ta |-> [ta EXCEPT
                        !.lines = Take(ta.lines, row - 1)
                                  \o << ta.lines[row] \o ta.lines[row + 1] >>
                                  \o Drop(ta.lines, row + 1),
                        !.cursor = <<row - 1, Len(ta.lines[row])>>,
                        !.history = @ + 1],
             ok |-> TRUE]

\* TextArea::delete_char
delete_char(ta) ==
    LET row == Row(ta)
        col == Col(ta)
        line == Line(ta, row)
        Then(d) ==
          IF d.ok THEN d
          ELSE IF col = 0 THEN delete_newline(d.ta)
          ELSE [ta |-> [d.ta EXCEPT
                           !.lines[row + 1] = Take(line, col - 1) \o Drop(line, col),
                           !.cursor = <<row, col - 1>>,
                           !.history = @ + 1],
                ok |-> TRUE]
    IN Then(delete_selection(ta, FALSE))

\* TextArea::delete_next_char
delete_next_char(ta) ==
    LET Decide(d, moved) ==
          IF d.ok THEN d
          ELSE IF moved.cursor = d.ta.cursor THEN [ta |-> d.ta, ok |-> FALSE]
          ELSE delete_char(moved)
        Then(d) == Decide(d, move_cursor_with_shift(d.ta, "Forward", FALSE, 0))
    IN Then(delete_selection(ta, FALSE))

\* TextArea::delete_line_by_end
delete_line_by_end(ta) ==
    LET Decide(d, p) ==
          IF d.ok THEN d
          ELSE IF p.ok THEN p
          ELSE delete_next_char(d.ta)
        \* usize::MAX cells: the rest of the line
        Then(d) ==
          Decide(d, delete_piece(d.ta, Col(d.ta), Len(Line(d.ta, Row(d.ta))) + 1))
    IN Then(delete_selection(ta, FALSE))

\* TextArea::delete_word
delete_word(ta) ==
    LET row == Row(ta)
        col == Col(ta)
        Then(d, f) ==
          IF d.ok THEN d
          ELSE IF f # None THEN delete_piece(d.ta, f[1], col - f[1])
          ELSE IF col > 0 THEN delete_piece(d.ta, 0, col)
          ELSE delete_newline(d.ta)
    IN Then(delete_selection(ta, FALSE), find_word_start_backward(Line(ta, row), col))

----------------------------------------------------------------------------
(* Inputs: crate::app::keymap::Input, a key code and its modifiers *)

Key(code) == [key_code |-> code, ctrl |-> FALSE, alt |-> FALSE, shift |-> FALSE]
Ctrl(code) == [key_code |-> code, ctrl |-> TRUE, alt |-> FALSE, shift |-> FALSE]
Alt(code) == [key_code |-> code, ctrl |-> FALSE, alt |-> TRUE, shift |-> FALSE]
Shift(code) == [key_code |-> code, ctrl |-> FALSE, alt |-> FALSE, shift |-> TRUE]

\* KeyCode::Left .. KeyCode::Esc; every other key code is KeyCode::Char(c),
\* written as the one-character string c
SpecialCodes == {"Left", "Right", "Up", "Down", "Home", "End", "PageUp",
                 "PageDown", "Enter", "Backspace", "Delete", "Esc"}
IsChar(input) == input.key_code \notin SpecialCodes

PlainChars == {"h", "j", "k", "l", "w", "e", "b", "^", "$", "D", "C", "p", "x",
               "i", "a", "A", "o", "O", "I", "d", "y", "c", "v", " "}
CtrlChars == {"d", "f", "b", "p", "n", "e", "a", "v", "x", "c", "y", "k", "m"}
AltChars == {"p", "n", "f", "b", "e", "a", "v", "h", "i", "x"}

Inputs ==
    {Key(c) : c \in PlainChars \cup SpecialCodes}
    \cup {Ctrl(c) : c \in CtrlChars}
    \cup {Alt(c) : c \in AltChars}
    \cup {Shift("Right")}

\* the keys given to the EntryBox while it is active
BoxInputs == {Key("a"), Key(" "), Key("Enter"), Key("Backspace"), Ctrl("m")}

\* the characters typed as text in Insert mode
TypeChars == {"a"}

\* KeyModifiers::is_empty
modifiers_is_empty(input) == ~input.ctrl /\ ~input.alt /\ ~input.shift

\* TextArea::input: the key table of tui_textarea, for the keys of Inputs.
\* Reports whether the text changed.
TaInput(ta, input, vrow) ==
    LET k == input.key_code
        c == input.ctrl
        a == input.alt
        sh == input.shift
        moved(m) == [ta |-> move_cursor_with_shift(ta, m, sh, vrow), ok |-> FALSE]
    IN CASE (k = "m" /\ c /\ ~a) \/ k = "Enter" ->
              [ta |-> insert_newline(ta), ok |-> TRUE]
         [] IsChar(input) /\ ~c /\ ~a -> [ta |-> insert_char(ta, k), ok |-> TRUE]
         [] k = "Backspace" /\ ~c /\ ~a -> delete_char(ta)
         [] (k = "d" /\ c /\ ~a) \/ (k = "Delete" /\ ~c /\ ~a) -> delete_next_char(ta)
         [] k = "k" /\ c /\ ~a -> delete_line_by_end(ta)
         [] k = "h" /\ ~c /\ a -> delete_word(ta)
         [] (k = "n" /\ c /\ ~a) \/ (k = "Down" /\ ~c /\ ~a) -> moved("Down")
         [] (k = "p" /\ c /\ ~a) \/ (k = "Up" /\ ~c /\ ~a) -> moved("Up")
         [] (k = "f" /\ c /\ ~a) \/ (k = "Right" /\ ~c /\ ~a) -> moved("Forward")
         [] (k = "b" /\ c /\ ~a) \/ (k = "Left" /\ ~c /\ ~a) -> moved("Back")
         [] (k = "a" /\ c /\ ~a) \/ k = "Home" -> moved("Head")
         [] (k = "e" /\ c /\ ~a) \/ k = "End" -> moved("End")
         [] k = "f" /\ ~c /\ a -> moved("WordForward")
         [] k = "b" /\ ~c /\ a -> moved("WordBack")
         [] k = "n" /\ ~c /\ a -> moved("ParagraphForward")
         [] k = "p" /\ ~c /\ a -> moved("ParagraphBack")
         [] k = "y" /\ c /\ ~a -> paste(ta)
         [] k = "x" /\ c /\ ~a -> cut(ta)
         [] k = "c" /\ c /\ ~a -> [ta |-> copy(ta), ok |-> FALSE]
         [] (k = "v" /\ c /\ ~a) \/ k = "PageDown" ->
              [ta |-> scroll_with_shift(ta, sh, vrow), ok |-> FALSE]
         [] (k = "v" /\ ~c /\ a) \/ k = "PageUp" ->
              [ta |-> scroll_with_shift(ta, sh, vrow), ok |-> FALSE]
         [] OTHER -> [ta |-> ta, ok |-> FALSE]

----------------------------------------------------------------------------
(* The App: the entry store and the settings.  The store is read only. *)

\* Option<u32>: None, or <<id>>
Some(x) == <<x>>

\* the stored content of each entry
Entries ==
    (1 :> <<"a">>) @@ (2 :> <<"a", NL>>)

\* an id no entry has
MissingId == 9

EntryIds == {None} \cup {Some(id) : id \in DOMAIN Entries} \cup {Some(MissingId)}

\* App::get_entry: the content of the entry, None when there is none
get_entry(id) == IF id \in DOMAIN Entries THEN Some(Entries[id]) ELSE None

\* App::get_current_entry
get_current_entry(a) ==
    IF a.current_entry_id = None THEN None ELSE get_entry(a.current_entry_id[1])

\* chrono::Local::now(): the hours and minutes the clock may show
Times == {<<9, 5>>}

Pad2(n) == IF n < 10 THEN "0" \o ToString(n) ELSE ToString(n)

\* now.format("[%H:%M]"), one cell
Timestamp(now) == "[" \o Pad2(now[1]) \o ":" \o Pad2(now[2]) \o "]"

----------------------------------------------------------------------------
(* EntryBox *)

\* EntryBox::new
EntryBox_new == [input_area |-> TaNew(<< <<>> >>), is_active |-> TRUE]

\* EntryBox::handle_input
EntryBox_handle_input(box, input, vrow) ==
    IF input.key_code = "Enter"
    THEN LET line == Trim(box.input_area.lines[1])
         IN [box |-> [box EXCEPT !.input_area = TaNew(<< <<>> >>)],
             result |-> IF line # <<>> THEN "Submitted" ELSE "Handled",
             text |-> line]
    ELSE [box |-> [box EXCEPT !.input_area = TaInput(box.input_area, input, vrow).ta],
          result |-> "Handled",
          text |-> <<>>]

----------------------------------------------------------------------------
(* Editor.  s is the Editor and the OS clipboard it reaches; every          *)
(* operation gives the s it leaves behind.                                  *)

\* Editor::get_content
get_content(s) == JoinLines(s.text_area.lines)

\* Editor::refresh_has_unsaved
refresh_has_unsaved(s, a) ==
    [s EXCEPT !.has_unsaved =
        IF s.is_dirty
        THEN (IF get_current_entry(a) # None
              THEN s.is_dirty /\ get_current_entry(a)[1] # get_content(s)
              ELSE FALSE)
        ELSE FALSE]

\* Editor::append_entry
append_entry(s, entry, now, a) ==
    LET line == <<Timestamp(now), " ">> \o entry
        Inserted(r) ==
          IF ~r.ok THEN TaNew(Append(r.ta.lines, line))
          ELSE insert_newline(r.ta)
    IN refresh_has_unsaved(
         [s EXCEPT !.text_area = Inserted(insert_str(s.text_area, line)),
                   !.is_dirty = TRUE], a)

\* Editor::set_current_entry
set_current_entry(s, entry_id, a) ==
    LET entry == IF entry_id = None THEN None ELSE get_entry(entry_id[1])
        ta == IF entry # None
              THEN move_cursor(move_cursor(TaNew(StrLines(entry[1])), "Bottom"), "End")
              ELSE TaDefault
    IN refresh_has_unsaved(
         [s EXCEPT !.is_dirty = IF entry # None THEN FALSE ELSE @,
                   !.text_area = ta], a)

\* a change of mode that refuses to go back to Normal
set_editor_mode_never_normal(s, m) ==
    IF m = "Normal" THEN s
    ELSE [s EXCEPT !.text_area = IF s.mode = "Normal" /\ m = "Visual"
                                 THEN start_selection(@)
                                 ELSE IF s.mode = "Visual" THEN cancel_selection(@)
                                 ELSE @,
                   !.mode = m]

\* Editor::set_editor_mode
set_editor_mode(s, m) ==
    [s EXCEPT
        !.text_area =
            IF s.mode = "Normal" /\ m = "Visual" THEN start_selection(@)
            ELSE IF s.mode = "Visual" /\ m \in {"Normal", "Insert"}
                 THEN cancel_selection(@)
                 ELSE @,
        !.mode = m]

\* a set_active that hands its argument on to the EntryBox
set_active_with_entry_box(s, active) ==
    LET s1 == IF ~active /\ s.mode = "Visual" THEN set_editor_mode(s, "Normal") ELSE s
    IN [s1 EXCEPT !.entry_box.is_active = active, !.is_active = active]

\* Editor::set_active
set_active(s, active) ==
    LET s1 == IF ~active /\ s.mode = "Visual" THEN set_editor_mode(s, "Normal") ELSE s
        s2 == IF ~active THEN [s1 EXCEPT !.entry_box.is_active = FALSE] ELSE s1
    IN [s2 EXCEPT !.is_active = active]

\* Editor::set_entry_content
set_entry_content(s, entry_content, a) ==
    LET ta == move_cursor(move_cursor(TaNew(StrLines(entry_content)), "Bottom"), "End")
    IN refresh_has_unsaved([s EXCEPT !.is_dirty = TRUE, !.text_area = ta], a)

\* a clipboard call that swallows every failure and does nothing
exec_os_clipboard_swallowing(s, operation, cb) == [s |-> s, ret |-> "Handled"]

\* Editor::exec_os_clipboard.  cb tells how the OS clipboard answers this
\* call: new_ok whether Clipboard::new succeeds, io_ok whether the following
\* get_text / set_text does.
exec_os_clipboard(s, operation, cb) ==
    LET \* clipboard.set_text(self.text_area.yank_text())
        SetText(s1) ==
          IF cb.io_ok
          THEN [s |-> [s1 EXCEPT !.os_clipboard = yank_text(s1.text_area)],
                ret |-> "Handled"]
          ELSE [s |-> s1, ret |-> "Err"]
        Cut(c) ==
          IF c.ok
          THEN [s EXCEPT !.text_area = c.ta, !.is_dirty = TRUE, !.has_unsaved = TRUE]
          ELSE [s EXCEPT !.text_area = c.ta]
        Pasted(r) ==
          IF ~r.ok THEN [s |-> [s EXCEPT !.text_area = r.ta], ret |-> "Err"]
          ELSE [s |-> [s EXCEPT !.text_area = r.ta, !.is_dirty = TRUE,
                                !.has_unsaved = TRUE],
                ret |-> "Handled"]
    IN IF ~cb.new_ok THEN [s |-> s, ret |-> "Err"]
       ELSE CASE operation = "Copy" -> SetText([s EXCEPT !.text_area = copy(@)])
              [] operation = "Cut" -> SetText(Cut(cut(s.text_area)))
              [] operation = "Paste" ->
                   IF ~cb.io_ok THEN [s |-> s, ret |-> "Err"]
                   ELSE IF s.os_clipboard = <<>> THEN [s |-> s, ret |-> "Handled"]
                   ELSE Pasted(insert_str(s.text_area, s.os_clipboard))

\* is_default_navigation
is_default_navigation(input) ==
    LET has_control == input.ctrl
        has_alt == input.alt
        k == input.key_code
    IN \/ k \in {"Left", "Right", "Up", "Down", "Home", "End", "PageUp", "PageDown"}
       \/ k = "p" /\ (has_control \/ has_alt)
       \/ k = "n" /\ (has_control \/ has_alt)
       \/ k = "f" /\ ~has_control /\ has_alt
       \/ k = "b" /\ ~has_control /\ has_alt
       \/ k = "e" /\ (has_control \/ has_alt)
       \/ k = "a" /\ (has_control \/ has_alt)
       \/ k = "v" /\ (has_control \/ has_alt)

\* Editor::handle_input_visual_only: handled tells whether the key was one
\* of the Visual-only commands, err whether the clipboard call failed
handle_input_visual_only(s, input, sync_os_clipboard, cb) ==
    LET k == input.key_code
        viaOs(operation) == exec_os_clipboard(s, operation, cb)
        \* the `?` behind the clipboard call, then the change of mode
        ThenMode(r, m) ==
          IF r.ret = "Err" THEN [s |-> r.s, handled |-> TRUE, err |-> TRUE]
          ELSE [s |-> IF m = "same" THEN r.s ELSE set_editor_mode(r.s, m),
                handled |-> TRUE, err |-> FALSE]
    IN IF ~modifiers_is_empty(input) THEN [s |-> s, handled |-> FALSE, err |-> FALSE]
       ELSE CASE k = "d" ->
                   ThenMode(IF sync_os_clipboard THEN viaOs("Cut")
                            ELSE [s |-> [s EXCEPT !.text_area = cut(@).ta],
                                  ret |-> "Handled"], "same")
              [] k = "y" ->
                   ThenMode(IF sync_os_clipboard THEN viaOs("Copy")
                            ELSE [s |-> [s EXCEPT !.text_area = copy(@)],
                                  ret |-> "Handled"], "Normal")
              [] k = "c" ->
                   ThenMode(IF sync_os_clipboard THEN viaOs("Copy")
                            ELSE [s |-> [s EXCEPT !.text_area = cut(@).ta],
                                  ret |-> "Handled"], "Insert")
              [] OTHER -> [s |-> s, handled |-> FALSE, err |-> FALSE]

\* Editor::handle_vim_motions: the table is matched on the key code and on
\* whether Control is held; Alt and Shift are not looked at.  err tells
\* whether a clipboard call failed.
handle_vim_motions(s, input, sync_os_clipboard, cb, vrow) ==
    LET k == input.key_code
        has_control == input.ctrl
        ta == s.text_area
        move(m) == [s |-> [s EXCEPT !.text_area = move_cursor(ta, m)], err |-> FALSE]
        enter(t) == [s |-> [s EXCEPT !.text_area = t, !.mode = "Insert"], err |-> FALSE]
        \* exec_os_clipboard(..)?, then the mode the arm sets, if any
        Tried(r, m) ==
          IF r.ret = "Err" THEN [s |-> r.s, err |-> TRUE]
          ELSE [s |-> IF m = "same" THEN r.s ELSE [r.s EXCEPT !.mode = m],
                err |-> FALSE]
        thenCopy(t, m) ==
          Tried(exec_os_clipboard([s EXCEPT !.text_area = t], "Copy", cb), m)
    IN CASE k = "h" /\ ~has_control -> move("Back")
         [] k = "j" /\ ~has_control -> move("Down")
         [] k = "k" /\ ~has_control -> move("Up")
         [] k = "l" /\ ~has_control -> move("Forward")
         [] k \in {"w", "e"} /\ ~has_control -> move("WordForward")
         [] k = "b" /\ ~has_control -> move("WordBack")
         [] k = "^" /\ ~has_control -> move("Head")
         [] k = "$" /\ ~has_control -> move("End")
         [] k = "D" /\ ~has_control -> thenCopy(delete_line_by_end(ta).ta, "same")
         [] k = "C" /\ ~has_control -> thenCopy(delete_line_by_end(ta).ta, "Insert")
         [] k = "p" /\ ~has_control ->
              IF sync_os_clipboard
              THEN Tried(exec_os_clipboard(s, "Paste", cb), "same")
              ELSE [s |-> [s EXCEPT !.text_area = paste(ta).ta], err |-> FALSE]
         [] k = "x" /\ ~has_control -> thenCopy(delete_next_char(ta).ta, "same")
         [] k = "i" /\ ~has_control -> enter(ta)
         [] k = "a" /\ ~has_control -> enter(move_cursor(ta, "Forward"))
         [] k = "A" /\ ~has_control -> enter(move_cursor(ta, "End"))
         [] k = "o" /\ ~has_control -> enter(insert_newline(move_cursor(ta, "End")))
         [] k = "O" /\ ~has_control ->
              enter(move_cursor(insert_newline(move_cursor(ta, "Head")), "Up"))
         [] k = "I" /\ ~has_control -> enter(move_cursor(ta, "Head"))
         [] k \in {"d", "f", "b"} /\ has_control ->
              [s |-> [s EXCEPT !.text_area = scroll(ta, vrow)], err |-> FALSE]
         [] OTHER -> [s |-> s, err |-> FALSE]

\* a first-refusal path that serves the active EntryBox and refuses every
\* other event, also in Insert mode
handle_input_prioritized_refusing_insert(s, input, a, cb, now, vrow) ==
    IF s.entry_box.is_active
    THEN LET Routed(b) ==
               IF b.result = "Submitted"
               THEN [s |-> append_entry([s EXCEPT !.entry_box = b.box], b.text, now, a),
                     ret |-> "Handled"]
               ELSE [s |-> [s EXCEPT !.entry_box = b.box], ret |-> "Handled"]
         IN Routed(EntryBox_handle_input(s.entry_box, input, vrow))
    ELSE [s |-> s, ret |-> "NotFound"]

\* Editor::handle_input_prioritized
handle_input_prioritized(s, input, a, cb, now, vrow) ==
    IF s.entry_box.is_active
    THEN LET Routed(b) ==
               IF b.result = "Submitted"
               THEN [s |-> append_entry([s EXCEPT !.entry_box = b.box], b.text, now, a),
                     ret |-> "Handled"]
               ELSE [s |-> [s EXCEPT !.entry_box = b.box], ret |-> "Handled"]
         IN Routed(EntryBox_handle_input(s.entry_box, input, vrow))
    ELSE IF s.mode = "Insert"
    THEN LET has_ctrl == input.ctrl
             k == input.key_code
             Given(r) ==
               IF r.ok
               THEN [s |-> refresh_has_unsaved(
                             [s EXCEPT !.text_area = r.ta, !.is_dirty = TRUE], a),
                     ret |-> "Handled"]
               ELSE [s |-> [s EXCEPT !.text_area = r.ta], ret |-> "Handled"]
         IN IF a.sync_os_clipboard /\ has_ctrl /\ k \in {"x", "c", "y"}
            THEN exec_os_clipboard(s, CASE k = "x" -> "Cut"
                                        [] k = "c" -> "Copy"
                                        [] k = "y" -> "Paste", cb)
            ELSE Given(TaInput(s.text_area, input, vrow))
    ELSE [s |-> s, ret |-> "NotFound"]

\* the three-tier dispatch in the middle of Editor::handle_input
Dispatch(s, input, sync_os_clipboard, cb, vrow) ==
    LET \* handle_vim_motions runs unless Visual mode handled the key itself
        Rest(v) ==
          IF v.err THEN [s |-> v.s, err |-> TRUE]
          ELSE IF v.handled THEN [s |-> v.s, err |-> FALSE]
          ELSE handle_vim_motions(v.s, input, sync_os_clipboard, cb, vrow)
    IN IF is_default_navigation(input)
       THEN [s |-> [s EXCEPT !.text_area = TaInput(@, input, vrow).ta], err |-> FALSE]
       ELSE Rest(IF s.mode # "Visual"
                 THEN [s |-> s, handled |-> FALSE, err |-> FALSE]
                 ELSE handle_input_visual_only(s, input, sync_os_clipboard, cb))

\* Editor::handle_input
handle_input(s, input, a, cb, now, vrow) ==
    IF s.entry_box.is_active
    THEN LET Routed(b) ==
               IF b.result = "Submitted"
               THEN [s |-> append_entry([s EXCEPT !.entry_box = b.box], b.text, now, a),
                     ret |-> "Handled"]
               ELSE [s |-> [s EXCEPT !.entry_box = b.box], ret |-> "Handled"]
         IN Routed(EntryBox_handle_input(s.entry_box, input, vrow))
    ELSE IF get_current_entry(a) = None THEN [s |-> s, ret |-> "Handled"]
    ELSE LET Finish(d) ==
               LET s2 == IF ~is_selecting(d.s.text_area) /\ d.s.mode = "Visual"
                         THEN set_editor_mode(d.s, "Normal") ELSE d.s
               IN IF d.err THEN [s |-> d.s, ret |-> "Err"]
                  ELSE [s |-> refresh_has_unsaved([s2 EXCEPT !.is_dirty = TRUE], a),
                        ret |-> "Handled"]
         IN Finish(Dispatch(s, input, a.sync_os_clipboard, cb, vrow))

----------------------------------------------------------------------------
(* The state machine: one action per public operation of Editor *)

Modes == {"Normal", "Insert", "Visual"}

\* the contents a caller hands to set_entry_content
Contents == {<<>>, <<"a", NL>>}

\* how the OS clipboard may answer one call
ClipboardAnswers == [new_ok : BOOLEAN, io_ok : BOOLEAN]
ClipboardWorks == [new_ok |-> TRUE, io_ok |-> TRUE]

\* the keys on which a handler may reach exec_os_clipboard; on every other
\* key the answer of the clipboard is never asked for
ClipboardKeys == {"d", "y", "c", "D", "C", "p", "x"}
AnswersFor(input) ==
    IF input.key_code \in ClipboardKeys THEN ClipboardAnswers ELSE {ClipboardWorks}

\* the keys that scroll; on every other key the viewport row is not read
ScrollKeys == {"PageUp", "PageDown", "v", "d", "f", "b"}
ViewportRowsFor(input) ==
    IF input.key_code \in ScrollKeys THEN 0..(MaxLines - 1) ELSE {0}

\* the TextArea stays within the bounds of the model
TaWithin(ta, cols) ==
    /\ Len(ta.lines) <= MaxLines
    /\ \A i \in 1..Len(ta.lines) : Len(ta.lines[i]) <= cols
WithinBounds(s) ==
    /\ TaWithin(s.text_area, MaxCols)
    /\ TaWithin(s.entry_box.input_area, MaxBox)

\* the inputs given in the current state: the active EntryBox gets those
\* of BoxInputs; in Insert mode, where a character key inserts itself, only
\* the characters of TypeChars are typed
Offered(input) ==
    /\ entry_box.is_active => input \in BoxInputs
    /\ mode = "Insert" /\ IsChar(input) /\ ~input.ctrl /\ ~input.alt
         => input.key_code \in TypeChars

Self ==
    [text_area |-> text_area, entry_box |-> entry_box, mode |-> mode,
     is_active |-> is_active, is_dirty |-> is_dirty, has_unsaved |-> has_unsaved,
     os_clipboard |-> os_clipboard]

Becomes(s) ==
    /\ steps < MaxSteps
    /\ steps' = steps + 1
    /\ WithinBounds(s)
    /\ text_area' = s.text_area
    /\ entry_box' = s.entry_box
    /\ mode' = s.mode
    /\ is_active' = s.is_active
    /\ is_dirty' = s.is_dirty
    /\ has_unsaved' = s.has_unsaved
    /\ os_clipboard' = s.os_clipboard

\* Editor::new, a store whose current entry is not set, either clipboard
\* policy, an empty OS clipboard
Init ==
    /\ text_area = TaDefault
    /\ entry_box = EntryBox_new
    /\ mode = "Normal"
    /\ is_active = FALSE
    /\ is_dirty = FALSE
    /\ has_unsaved = FALSE
    /\ app \in [current_entry_id : {None}, sync_os_clipboard : BOOLEAN]
    /\ os_clipboard = <<>>
    /\ last = [op |-> "new", ret |-> "none"]
    /\ steps = 0

\* the caller selects the entry in the App, then the editor loads it
SetCurrentEntry(entry_id) ==
    /\ app' = [app EXCEPT !.current_entry_id = entry_id]
    /\ Becomes(set_current_entry(Self, entry_id, app'))
    /\ last' = [op |-> "set_current_entry", ret |-> "none"]

HandleInputPrioritized(input) ==
    /\ Offered(input)
    /\ \E cb \in AnswersFor(input), now \in Times, vrow \in ViewportRowsFor(input) :
         \E r \in {handle_input_prioritized(Self, input, app, cb, now, vrow)} :
            /\ Becomes(r.s)
            /\ last' = [op |-> "handle_input_prioritized", ret |-> r.ret]
    /\ UNCHANGED app

\* handle_input opens with debug_assert!(!self.is_insert_mode())
HandleInput(input) ==
    /\ mode # "Insert"
    /\ Offered(input)
    /\ \E cb \in AnswersFor(input), now \in Times, vrow \in ViewportRowsFor(input) :
         \E r \in {handle_input(Self, input, app, cb, now, vrow)} :
            /\ Becomes(r.s)
            /\ last' = [op |-> "handle_input", ret |-> r.ret]
    /\ UNCHANGED app

SetEditorMode(m) ==
    /\ Becomes(set_editor_mode(Self, m))
    /\ last' = [op |-> "set_editor_mode", ret |-> "none"]
    /\ UNCHANGED app

SetActive(active) ==
    /\ Becomes(set_active(Self, active))
    /\ last' = [op |-> "set_active", ret |-> "none"]
    /\ UNCHANGED app

SetEntryContent(entry_content) ==
    /\ Becomes(set_entry_content(Self, entry_content, app))
    /\ last' = [op |-> "set_entry_content", ret |-> "none"]
    /\ UNCHANGED app

ExecOsClipboard(operation) ==
    /\ \E cb \in ClipboardAnswers :
         \E r \in {exec_os_clipboard(Self, operation, cb)} :
            /\ Becomes(r.s)
            /\ last' = [op |-> "exec_os_clipboard", ret |-> r.ret]
    /\ UNCHANGED app

Next ==
    \/ \E entry_id \in EntryIds : SetCurrentEntry(entry_id)
    \/ \E input \in Inputs : HandleInputPrioritized(input)
    \/ \E input \in Inputs : HandleInput(input)
    \/ \E m \in Modes : SetEditorMode(m)
    \/ \E active \in BOOLEAN : SetActive(active)
    \/ \E entry_content \in Contents : SetEntryContent(entry_content)
    \/ \E operation \in {"Copy", "Cut", "Paste"} : ExecOsClipboard(operation)

Spec == Init /\ [][Next]_vars

----------------------------------------------------------------------------
(* Properties *)

Lines == text_area.lines
Content == get_content(Self)
NoEntry == get_current_entry(app) = None
Stored == get_current_entry(app)[1]

\* what refresh_has_unsaved would compute in the current state
Derived == is_dirty /\ ~NoEntry /\ Stored # Content

\* C1: after every processed operation has_unsaved is true exactly when
\* is_dirty holds, a current entry exists and the joined buffer content
\* differs from the stored content of that entry.
C1_HasUnsavedIsRecomputed ==
    last.op \in {"handle_input_prioritized", "handle_input", "set_current_entry",
                 "set_entry_content", "exec_os_clipboard"}
    => (has_unsaved <=> Derived)

\* the pure-movement keys: the default navigation keys and the movements of
\* the motion table
MovementInputs ==
    {i \in Inputs : is_default_navigation(i)}
    \cup {Key(c) : c \in {"h", "j", "k", "l", "w", "e", "b", "^", "$"}}

\* C2: a pure-movement input handled by handle_input in Normal or Visual
\* mode, with an entry loaded and the EntryBox inactive, leaves is_dirty
\* and the lines of the buffer as they were.
C2_MovementKeepsDirtyAndLines ==
    [][(/\ ~entry_box.is_active
        /\ ~NoEntry
        /\ \E input \in MovementInputs : HandleInput(input))
       => (is_dirty' = is_dirty /\ text_area'.lines = text_area.lines)]_vars

\* C3: after each completed set_editor_mode, handle_input,
\* handle_input_prioritized, set_active or set_current_entry the buffer has
\* a selection exactly when the mode is Visual.
C3_SelectionIffVisual ==
    last.op \in {"set_editor_mode", "handle_input", "handle_input_prioritized",
                 "set_active", "set_current_entry"}
    => (is_selecting(text_area) <=> mode = "Visual")

\* C4: after set_current_entry, whatever its argument and whatever the mode
\* before, the mode is Normal.
C4_LoadResetsMode ==
    last.op = "set_current_entry" => mode = "Normal"

\* C5: after set_current_entry, whatever its argument, is_dirty and
\* has_unsaved are both false.
C5_LoadClearsDirtyAndUnsaved ==
    last.op = "set_current_entry" => (~is_dirty /\ ~has_unsaved)

\* C6: after set_current_entry, whatever its argument, the EntryBox holds no
\* text and is inactive.
C6_LoadClearsEntryBox ==
    last.op = "set_current_entry"
    => (entry_box.input_area.lines = << <<>> >> /\ ~entry_box.is_active)

\* the buffer holds the lines the current entry was loaded with, nothing
\* is selected
AsLoaded ==
    /\ ~NoEntry
    /\ text_area.lines = TaNew(StrLines(Stored)).lines
    /\ ~is_selecting(text_area)

\* C7: for an existing entry has_unsaved is false right after the load; it
\* is true after one character is inserted into the loaded buffer through
\* handle_input_prioritized in Insert mode; and it is false again after any
\* input that brings the joined buffer content back to the stored content.
C7_UnsavedFollowsContent ==
    [][/\ (last'.op = "set_current_entry"
             /\ get_current_entry(app') # None) => ~has_unsaved'
       /\ (/\ AsLoaded
           /\ mode = "Insert"
           /\ ~entry_box.is_active
           /\ \E c \in TypeChars : HandleInputPrioritized(Key(c))) => has_unsaved'
       /\ (/\ last'.op \in {"handle_input_prioritized", "handle_input"}
           /\ ~NoEntry
           /\ JoinLines(text_area'.lines) = Stored) => ~has_unsaved'
      ]_vars

\* C8: with no current entry, handle_input returns Handled and changes
\* neither the lines of the buffer, nor the mode, nor is_dirty, whatever the
\* key and whatever the state of the EntryBox and the mode.
C8_NoEntryInputHasNoEffect ==
    [][(last'.op = "handle_input" /\ NoEntry)
       => /\ last'.ret = "Handled"
          /\ text_area'.lines = text_area.lines
          /\ mode' = mode
          /\ is_dirty' = is_dirty]_vars

\* the EntryBox is active and Enter submits the text it holds
Submits ==
    /\ entry_box.is_active
    /\ Trim(entry_box.input_area.lines[1]) # <<>>
    /\ HandleInputPrioritized(Key("Enter")) \/ HandleInput(Key("Enter"))

\* C9: when the EntryBox submits text T the buffer gains, behind the lines
\* it had, one line made of the short time, a space and T; the earlier
\* lines keep their content, and is_dirty becomes true.  The buffer is read
\* as its joined content, so that the newline put behind the new line ends
\* it.
C9_SubmitAppendsOwnLine ==
    [][Submits
       => /\ \E now \in Times :
               StrLines(JoinLines(text_area'.lines))
                 = StrLines(JoinLines(text_area.lines))
                   \o << <<Timestamp(now), " ">>
                         \o Trim(entry_box.input_area.lines[1]) >>
          /\ is_dirty']_vars

\* str::trim() on the whole text of the field: spaces and newlines go
RECURSIVE TrimText(_)
TrimText(t) ==
    IF Len(t) > 0 /\ t[1] \in {" ", NL} THEN TrimText(Tail(t))
    ELSE IF Len(t) > 0 /\ t[Len(t)] \in {" ", NL} THEN TrimText(Take(t, Len(t) - 1))
    ELSE t

\* C10: on Enter EntryBox::handle_input returns Submitted exactly when the
\* trimmed content of the field is not empty, and Handled when it is empty
\* or blank; either way the field is empty afterwards; every other key
\* returns Handled.
C10_EnterSubmitsNonBlankField ==
    \A input \in Inputs :
        LET r == EntryBox_handle_input(entry_box, input, 0)
            field == TrimText(JoinLines(entry_box.input_area.lines))
        IN IF input.key_code = "Enter"
           THEN /\ r.result = "Submitted" <=> field # <<>>
                /\ r.result = "Handled" <=> field = <<>>
                /\ r.box.input_area.lines = << <<>> >>
           ELSE r.result = "Handled"

\* C11: after set_active(false), whatever the mode before, the mode is
\* Normal, nothing is selected and the EntryBox is inactive.
C11_DeactivateResets ==
    (last.op = "set_active" /\ ~is_active)
    => (mode = "Normal" /\ ~is_selecting(text_area) /\ ~entry_box.is_active)

\* C12: after set_active(true), also when it follows a set_active(false),
\* the EntryBox is active.
C12_ActivateOpensEntryBox ==
    (last.op = "set_active" /\ is_active) => entry_box.is_active

\* Visual mode with a selection that holds text, the keys reaching the
\* editor: the EntryBox is inactive and an entry is current
VisualSelection ==
    /\ mode = "Visual"
    /\ selection_positions(text_area) # None
    /\ ~entry_box.is_active
    /\ ~NoEntry

\* the text between the anchor and the cursor
Selected ==
    RangeText(text_area, selection_positions(text_area)[1],
              selection_positions(text_area)[2])

\* C13: in Visual mode with a selection, an unmodified y given to
\* handle_input that is handled (under the OS-sync policy: the OS clipboard
\* took the text) leaves the mode Normal and the lines of the buffer as they
\* were, and makes the yank register (local policy) or the OS clipboard
\* (OS-sync policy) equal to the text that was selected.
C13_YankCopiesSelection ==
    [][(VisualSelection /\ HandleInput(Key("y")) /\ last'.ret = "Handled")
       => /\ mode' = "Normal"
          /\ text_area'.lines = text_area.lines
          /\ IF app.sync_os_clipboard
             THEN os_clipboard' = Selected
             ELSE text_area'.yank = Selected]_vars

\* a selection was made in the loaded entry and copied: nothing was ever
\* edited, the copied text is held by the register and, under the OS-sync
\* policy, by the OS clipboard, and handle_input has left Visual mode
C13_Witness ==
    /\ last = [op |-> "handle_input", ret |-> "Handled"]
    /\ mode = "Normal"
    /\ ~NoEntry /\ ~entry_box.is_active
    /\ text_area.history = 0
    /\ ~is_selecting(text_area)
    /\ text_area.yank = <<"a">>
    /\ app.sync_os_clipboard => os_clipboard = <<"a">>
    /\ steps = 5

\* the lines of the buffer once the selected text is taken out
WithoutSelected ==
    delete_range(text_area, selection_positions(text_area)[1],
                 selection_positions(text_area)[2], TRUE).lines

\* C14: in Visual mode with a selection, an unmodified c given to
\* handle_input that is handled removes the selected text from the buffer
\* and leaves the mode Insert, under the local and under the OS-sync policy.
C14_ChangeCutsSelection ==
    [][(VisualSelection /\ HandleInput(Key("c")) /\ last'.ret = "Handled")
       => /\ mode' = "Insert"
          /\ text_area'.lines = WithoutSelected]_vars

\* C15: under the local policy no key given to handle_input or to
\* handle_input_prioritized changes the OS clipboard, and none of these
\* calls returns a clipboard error.
C15_LocalPolicyKeepsOffOsClipboard ==
    [][(/\ ~app.sync_os_clipboard
        /\ last'.op \in {"handle_input", "handle_input_prioritized"})
       => (os_clipboard' = os_clipboard /\ last'.ret # "Err")]_vars

\* handle_input with the OS clipboard answering, outside the scroll keys
Press(s, input) ==
    handle_input(s, input, app, ClipboardWorks, CHOOSE now \in Times : TRUE, 0)

\* d, then p on what d left behind
CutThenPaste == Press(Press(Self, Key("d")).s, Key("p"))

\* C16: in Visual mode with a selection, a handled d followed at once by a
\* handled p, both through handle_input under the same policy, leaves the
\* lines of the buffer as they were before the d; for both policies.
C16_CutThenPasteRestores ==
    (/\ VisualSelection
     /\ Press(Self, Key("d")).ret = "Handled"
     /\ CutThenPaste.ret = "Handled")
    => CutThenPaste.s.text_area.lines = text_area.lines

\* a selection is open whose cut takes text out of the buffer and fills the
\* register, and the paste behind it is handled
C16_Witness ==
    /\ VisualSelection
    /\ Press(Self, Key("d")).ret = "Handled"
    /\ Press(Self, Key("d")).s.text_area.lines # text_area.lines
    /\ Press(Self, Key("d")).s.text_area.yank = Selected
    /\ CutThenPaste.ret = "Handled"
    /\ CutThenPaste.s.mode = "Normal"

\* C17: under the OS-sync policy a Cut of a selection that holds text has
\* taken the text out of the buffer whenever it returns a clipboard error,
\* be it that the clipboard could not be acquired or not be written.
C17_CutRemovesBeforeClipboard ==
    [][(/\ app.sync_os_clipboard
        /\ selection_positions(text_area) # None
        /\ ExecOsClipboard("Cut")
        /\ last'.ret = "Err")
       => text_area'.lines = WithoutSelected]_vars

\* the ways the OS clipboard can fail one call
ClipboardFailures == ClipboardAnswers \ {ClipboardWorks}

\* s has the lines, cursor, mode and flags of the current state
Untouched(s) ==
    /\ s.text_area.lines = text_area.lines
    /\ s.text_area.cursor = text_area.cursor
    /\ s.mode = mode
    /\ s.is_dirty = is_dirty
    /\ s.has_unsaved = has_unsaved

\* the call returned the error and left the editor as it was
FailsClean(r) == r.ret = "Err" /\ Untouched(r.s)

\* the call succeeded and left the lines as they were
NoOp(r) == r.ret = "Handled" /\ r.s.text_area.lines = text_area.lines

\* the three ways to a Paste through the OS clipboard: the operation itself,
\* p in Normal or Visual mode, Ctrl+y in Insert mode; Holds(r) is asked of
\* the outcome of each that applies in the current state
EveryOsPaste(cb, Holds(_)) ==
    LET now == CHOOSE t \in Times : TRUE
    IN /\ Holds(exec_os_clipboard(Self, "Paste", cb))
       /\ (mode # "Insert" /\ ~entry_box.is_active /\ ~NoEntry)
            => Holds(handle_input(Self, Key("p"), app, cb, now, 0))
       /\ (mode = "Insert" /\ ~entry_box.is_active)
            => Holds(handle_input_prioritized(Self, Ctrl("y"), app, cb, now, 0))

StatedNavigation ==
    {Key(c) : c \in {"Left", "Right", "Up", "Down", "Home", "End", "PageUp", "PageDown"}}
    \cup {Ctrl(c) : c \in {"p", "n", "f", "b", "e", "a", "v"}}
    \cup {Alt(c) : c \in {"p", "n", "f", "b", "e", "a", "v"}}

\* C19: in Normal and in Visual mode handle_input gives every key of the
\* default-navigation tier to the plain cursor movement of the TextArea and
\* to nothing else: the TextArea after the call is the one TextArea::input
\* makes of the key.
C19_NavigationGoesToTextArea ==
    (mode # "Insert" /\ ~entry_box.is_active /\ ~NoEntry)
    => \A input \in StatedNavigation : \A vrow \in ViewportRowsFor(input) :
         handle_input(Self, input, app, ClipboardWorks,
                      CHOOSE t \in Times : TRUE, vrow).s.text_area
           = TaInput(text_area, input, vrow).ta

\* inputs that carry Alt and are no default navigation
OtherModifierInputs == {Alt("h"), Alt("i"), Alt("x")}

\* C20: in Normal and Visual mode an input that carries Alt and is no
\* default-navigation binding, such as Alt+h, Alt+i or Alt+x, is a silent
\* no-op of handle_input: the call does not fail and it changes neither the
\* lines, the cursor nor the mode.
C20_OtherModifiersAreNoOps ==
    (mode # "Insert" /\ ~entry_box.is_active /\ ~NoEntry)
    => \A input \in OtherModifierInputs : \A cb \in ClipboardAnswers :
         /\ ~is_default_navigation(input)
         /\ handle_input(Self, input, app, cb, CHOOSE t \in Times : TRUE, 0).ret # "Err"
         /\ Untouched(handle_input(Self, input, app, cb, CHOOSE t \in Times : TRUE, 0).s)

\* C21: the undo history of the buffer is discarded by set_current_entry
\* alone: no other operation (set_entry_content, append_entry, a dispatched
\* command, a clipboard call) leaves the buffer with fewer recorded edits
\* than it had.
C21_OnlyLoadDiscardsHistory ==
    [][last'.op # "set_current_entry"
       => text_area'.history >= text_area.history]_vars

\* C22: every command that changes the lines of the buffer leaves is_dirty
\* set, also when it returns a clipboard error after the change (D, C, x,
\* an OS-sync cut); a load is no command.
C22_MutationSetsDirty ==
    [][(/\ last'.op \in {"handle_input", "handle_input_prioritized",
                         "exec_os_clipboard", "set_entry_content"}
        /\ text_area'.lines # text_area.lines)
       => is_dirty']_vars

\* the mode an arm of the command tables sets by itself for this input in
\* mode m: `y` and `c` of the Visual-only commands, the arms of the motion
\* table that enter Insert mode
ExplicitModes(input, m) ==
    IF is_default_navigation(input) THEN {}
    ELSE IF m = "Visual" /\ modifiers_is_empty(input) /\ input.key_code \in {"d", "y", "c"}
    THEN CASE input.key_code = "y" -> {"Normal"}
           [] input.key_code = "c" -> {"Insert"}
           [] OTHER -> {}
    ELSE IF input.key_code \in {"C", "i", "a", "A", "o", "O", "I"} /\ ~input.ctrl
    THEN {"Insert"}
    ELSE {}

\* what C23 asks of one result r of handle_input on input
LeavesVisualProperly(r, input) ==
    r.ret = "Handled"
    => /\ ~(r.s.mode = "Visual" /\ ~is_selecting(r.s.text_area))
       /\ r.s.mode # mode
            => \/ r.s.mode \in ExplicitModes(input, mode)
               \/ /\ mode = "Visual" /\ r.s.mode = "Normal"
                  /\ ~is_selecting(r.s.text_area)

\* C23: when handle_input returns Ok with an entry loaded and the EntryBox
\* inactive, the mode is never left Visual without a selection: a command
\* that cleared the selection has forced the mode to Normal; and the mode
\* changes in no other way than by this forced transition or by the arm of
\* the command tables that the input selects.
C23_VisualNeverWithoutSelection ==
    (mode # "Insert" /\ ~entry_box.is_active /\ ~NoEntry)
    => \A input \in Inputs : \A cb \in AnswersFor(input) :
         \A vrow \in ViewportRowsFor(input) :
           LeavesVisualProperly(
             handle_input(Self, input, app, cb, CHOOSE t \in Times : TRUE, vrow),
             input)

\* a Visual `d` on a selection that holds text: the cut drops the selection
\* and the mode is forced to Normal
C23_Witness ==
    /\ VisualSelection
    /\ Press(Self, Key("d")).ret = "Handled"
    /\ Press(Self, Key("d")).s.mode = "Normal"
    /\ ~is_selecting(Press(Self, Key("d")).s.text_area)
    /\ Press(Self, Key("d")).s.text_area.lines # text_area.lines

----------------------------------------------------------------------------
(* The caller protocol: every event goes to handle_input_prioritized      *)
(* first, and to handle_input only when that returned NotFound            *)

\* one event under the protocol.  A handle_input that would start in
\* Insert mode fails its debug_assert: the call is recorded as "panic".
Event(input) ==
    /\ Offered(input)
    /\ \E cb \in AnswersFor(input), now \in Times, vrow \in ViewportRowsFor(input) :
         \E p \in {handle_input_prioritized(Self, input, app, cb, now, vrow)} :
            IF p.ret # "NotFound"
            THEN /\ Becomes(p.s)
                 /\ last' = [op |-> "handle_input_prioritized", ret |-> p.ret]
            ELSE IF p.s.mode = "Insert"
            THEN /\ Becomes(p.s)
                 /\ last' = [op |-> "handle_input", ret |-> "panic"]
            ELSE \E r \in {handle_input(p.s, input, app, cb, now, vrow)} :
                   /\ Becomes(r.s)
                   /\ last' = [op |-> "handle_input", ret |-> r.ret]
    /\ UNCHANGED app

ProtocolNext ==
    \/ \E entry_id \in EntryIds : SetCurrentEntry(entry_id)
    \/ \E input \in Inputs : Event(input)
    \/ \E m \in Modes : SetEditorMode(m)
    \/ \E active \in BOOLEAN : SetActive(active)
    \/ \E entry_content \in Contents : SetEntryContent(entry_content)
    \/ \E operation \in {"Copy", "Cut", "Paste"} : ExecOsClipboard(operation)

ProtocolSpec == Init /\ [][ProtocolNext]_vars

\* C24: under the caller protocol the assertion at the top of handle_input,
\* that the mode is not Insert, holds for every sequence of events, mode
\* changes, loads and activations.
C24_AssertionHoldsUnderProtocol == last.ret # "panic"

\* an event that handle_input_prioritized refused has gone through
\* handle_input and has put the editor into Insert mode
C24_Witness ==
    /\ last = [op |-> "handle_input", ret |-> "Handled"]
    /\ mode = "Insert"
    /\ ~entry_box.is_active
    /\ ~NoEntry

\* C25: handle_input_prioritized returns NotFound exactly when the EntryBox
\* is inactive and the mode is not Insert, and it then changes nothing of
\* the editor; with the EntryBox active or in Insert mode it returns Handled
\* or a clipboard error.
C25_NotFoundIffNothingToServe ==
    [][last'.op = "handle_input_prioritized"
       => /\ last'.ret = "NotFound" <=> (~entry_box.is_active /\ mode # "Insert")
          /\ last'.ret = "NotFound"
               => UNCHANGED <<text_area, entry_box, mode, is_active, is_dirty,
                              has_unsaved, os_clipboard>>
          /\ last'.ret \in {"NotFound", "Handled", "Err"}]_vars

\* a refused event in Visual mode: the selection and the mode are as before
C25_Witness ==
    /\ last = [op |-> "handle_input_prioritized", ret |-> "NotFound"]
    /\ mode = "Visual"
    /\ selection_positions(text_area) # None
    /\ ~entry_box.is_active

\* the event is Enter on an EntryBox whose text is not blank
SubmitsNonBlank(input) ==
    /\ input.key_code = "Enter"
    /\ TrimText(JoinLines(entry_box.input_area.lines)) # <<>>

\* what C26 asks of one result r of a handler on input
ConsumedByEntryBox(r, input) ==
    /\ r.s.mode = mode
    /\ r.s.text_area.selection_start = text_area.selection_start
    /\ ~SubmitsNonBlank(input)
         => /\ r.s.text_area.lines = text_area.lines
            /\ r.s.is_dirty = is_dirty

\* C26: while the EntryBox is active every input event, through
\* handle_input_prioritized or through handle_input, leaves the mode and the
\* selection of the buffer unchanged, and leaves the lines of the buffer and
\* is_dirty unchanged unless it is Enter on a non-blank EntryBox text.
C26_ActiveEntryBoxConsumesInput ==
    entry_box.is_active
    => \A input \in Inputs :
         /\ ConsumedByEntryBox(
              handle_input_prioritized(Self, input, app, ClipboardWorks,
                                       CHOOSE t \in Times : TRUE, 0), input)
         /\ mode # "Insert"
              => ConsumedByEntryBox(
                   handle_input(Self, input, app, ClipboardWorks,
                                CHOOSE t \in Times : TRUE, 0), input)

\* C27: the EntryBox becomes inactive by set_active(false) alone, and once
\* it is inactive no operation makes it active again; while it is still
\* active, a key of the motion table given to handle_input (`a`, which
\* would move the cursor and enter Insert mode) reaches neither the buffer
\* nor the mode.
C27_EntryBoxNeverReactivated ==
    [][/\ ~entry_box.is_active => ~entry_box'.is_active
       /\ (entry_box.is_active /\ ~entry_box'.is_active)
            => (last'.op = "set_active" /\ ~is_active')
       /\ (entry_box.is_active /\ HandleInput(Key("a")))
            => (mode' = mode /\ text_area' = text_area)]_vars

\* set_active(true) has been called on an editor whose EntryBox was closed
\* before: the editor is active, the EntryBox is not
C27_Witness ==
    /\ last.op = "set_active"
    /\ is_active
    /\ ~entry_box.is_active
    /\ ~NoEntry

\* C28: right after set_current_entry(Some(id)) on a stored entry,
\* get_content() is exactly the stored content, also when that ends with a
\* newline, and the cursor is at the end of the last line.
C28_LoadReadRoundTrip ==
    (last.op = "set_current_entry" /\ ~NoEntry)
    => /\ Content = Stored
       /\ text_area.cursor = <<Len(Lines) - 1, Len(Lines[Len(Lines)])>>

====
